---- MODULE Spec2Model ----
(***************************************************************************)
(* Hass-Parcel: a Home Assistant integration that polls the Parcel API and *)
(* exposes each shipment as a sensor.  The repository holds two sensor     *)
(* platforms:                                                              *)
(*   - src/sensor.py ("legacy"): ParcelDataCoordinator keeps a dict keyed  *)
(*     by str(id), refreshed through a Throttle'd async_refresh, read live *)
(*     by ParcelSensor;                                                    *)
(*   - src/custom_components/hass-parcel/sensor.py ("discovery"/"entry"):  *)
(*     ParcelApiClient + ParcelDataUpdateCoordinator keep the list the API *)
(*     returned, ParcelDeliverySensor caches values read at position idx.  *)
(* Strings the code inspects (statuses) are sequences of one-character     *)
(* strings, so that lower() and the `in` substring test are computed.      *)
(***************************************************************************)
EXTENDS Integers, Sequences, FiniteSets, TLC

VARIABLES
    platform,             \* which sensor platform this installation runs
    phase,                \* position of the platform's setup coroutine
    ldata,                \* ParcelDataCoordinator.data (dict str(id) -> shipment)
    throttled,            \* Throttle: a call was let through less than the interval ago
    linflight,            \* legacy fetches awaiting their response (callers, in start order)
    lentities,            \* ParcelSensor.parcel_id of every entity added
    data,                 \* DataUpdateCoordinator.data (list of shipments)
    data_is_none,         \* DataUpdateCoordinator.data is still None
    last_update_success,  \* DataUpdateCoordinator.last_update_success
    sensors,              \* the ParcelDeliverySensor objects, in creation order
    last,                 \* the operation completed last, its response and outcome
    status_in,            \* status-colour evaluation: the shipment under evaluation
    color_out,            \* status-colour evaluation: the colour computed for it
    flow,                 \* ParcelConfigFlow: the step the setup form is at, and its result
    entries               \* the API keys of the config entries created

vars == <<platform, phase, ldata, throttled, linflight, lentities, data, data_is_none,
          last_update_success, sensors, last, status_in, color_out, flow, entries>>

platformVars == <<platform, phase, ldata, throttled, linflight, lentities, data,
                  data_is_none, last_update_success, sensors, last>>

colorVars == <<status_in, color_out>>

flowVars == <<flow, entries>>

(***************************************************************************)
(* Bounds                                                                  *)
(***************************************************************************)
MaxId == 2          \* shipment ids are 1..MaxId
MaxShip == 2        \* shipments in one response
MaxInFlight == 2    \* legacy fetches in flight at once
MaxFrags == 2       \* fragments concatenated into a status string

(***************************************************************************)
(* Strings as character sequences                                          *)
(***************************************************************************)
UpperChars == <<"A","B","C","D","E","F","G","H","I","J","K","L","M",
                "N","O","P","Q","R","S","T","U","V","W","X","Y","Z">>
LowerChars == <<"a","b","c","d","e","f","g","h","i","j","k","l","m",
                "n","o","p","q","r","s","t","u","v","w","x","y","z">>

\* str.lower(), character by character
LowerChar(c) ==
    IF \E i \in 1..Len(UpperChars) : UpperChars[i] = c
    THEN LowerChars[CHOOSE i \in 1..Len(UpperChars) : UpperChars[i] = c]
    ELSE c

Lower(s) == [i \in 1..Len(s) |-> LowerChar(s[i])]

\* Python's `sub in s` for strings
Contains(sub, s) ==
    \E k \in 0..(Len(s) - Len(sub)) :
        \A j \in 1..Len(sub) : s[k + j] = sub[j]

K_delivered == <<"d","e","l","i","v","e","r","e","d">>
K_transit == <<"t","r","a","n","s","i","t">>
K_exception == <<"e","x","c","e","p","t","i","o","n">>
K_failed == <<"f","a","i","l","e","d">>
K_pending == <<"p","e","n","d","i","n","g">>
K_pre_transit == <<"p","r","e","-","t","r","a","n","s","i","t">>

S_unknown == <<"u","n","k","n","o","w","n">>
S_Unknown == <<"U","n","k","n","o","w","n">>
S_empty == <<>>
S_In_Transit == <<"I","n","_","T","r","a","n","s","i","t">>
S_in_transit == <<"i","n","_","t","r","a","n","s","i","t">>
S_delivered == <<"d","e","l","i","v","e","r","e","d">>

Colors == {"green", "blue", "red", "orange", "grey"}

\* dict.get(key, default)
Get(d, key, default) == IF key \in DOMAIN d THEN d[key] ELSE default

StatusColor_CaseSensitive(shipment) ==
    LET status == Get(shipment, "status", S_empty)
    IN  IF Contains(K_delivered, status) THEN "green"
        ELSE IF Contains(K_transit, status) THEN "blue"
        ELSE IF Contains(K_exception, status) \/ Contains(K_failed, status) THEN "red"
        ELSE IF Contains(K_pending, status) \/ Contains(K_pre_transit, status) THEN "orange"
        ELSE "grey"

StatusColor_TransitFirst(shipment) ==
    LET status == Lower(Get(shipment, "status", S_empty))
    IN  IF Contains(K_transit, status) THEN "blue"
        ELSE IF Contains(K_delivered, status) THEN "green"
        ELSE IF Contains(K_exception, status) \/ Contains(K_failed, status) THEN "red"
        ELSE IF Contains(K_pending, status) \/ Contains(K_pre_transit, status) THEN "orange"
        ELSE "grey"

\* ParcelDeliverySensor.update_attributes, the status_color chain
StatusColor(shipment) ==
    LET status == Lower(Get(shipment, "status", S_empty))
    IN  IF Contains(K_delivered, status) THEN "green"
        ELSE IF Contains(K_transit, status) THEN "blue"
        ELSE IF Contains(K_exception, status) \/ Contains(K_failed, status) THEN "red"
        ELSE IF Contains(K_pending, status) \/ Contains(K_pre_transit, status) THEN "orange"
        ELSE "grey"

(***************************************************************************)
(* Shipments and HTTP responses                                            *)
(***************************************************************************)
Ids == 1..MaxId

Statuses == {S_In_Transit, S_delivered}

\* A shipment object of the upstream JSON, identified by its "id"
Shipments == [id : Ids, status : Statuses]

\* A shipment object that lacks its "id"
NoIdShipment == [status |-> S_delivered]

HasId(s) == "id" \in DOMAIN s

\* The upstream API identifies a shipment by its id: one response never holds
\* the same id twice.
Distinct(l) == \A i, j \in 1..Len(l) : i # j => l[i].id # l[j].id

\* The "shipments" arrays of the responses: the lists of identified shipments,
\* and one array whose shipment has no id.
ShipmentLists ==
    {l \in UNION {[1..k -> Shipments] : k \in 0..MaxShip} : Distinct(l)}
    \cup {<<NoIdShipment>>}

HTTP_OK == 200

ErrorStatuses == {500}

NoResponse ==
    [kind |-> "none", status |-> 0, body |-> "none",
     has_shipments |-> FALSE, shipments |-> <<>>]

\* What one GET {PARCEL_API_URL}/shipments can come back with:
\*   kind "client_error" / "timeout": aiohttp.ClientError / asyncio.TimeoutError
\*   kind "http": a response with a status and a body, the body being
\*     "object"            a JSON object (with or without a "shipments" member)
\*     "array"             valid JSON that is not an object
\*     "bad_json"          resp.json() raises json.JSONDecodeError (a ValueError)
\*     "bad_content_type"  resp.json() raises aiohttp.ContentTypeError (a ClientError)
\*     "text"              the body of an error response
Responses ==
    {[NoResponse EXCEPT !.kind = k] : k \in {"client_error", "timeout"}}
    \cup {[NoResponse EXCEPT !.kind = "http", !.status = st, !.body = "text"] :
            st \in ErrorStatuses}
    \cup {[NoResponse EXCEPT !.kind = "http", !.status = HTTP_OK, !.body = b] :
            b \in {"array", "bad_json", "bad_content_type", "object"}}
    \cup {[kind |-> "http", status |-> HTTP_OK, body |-> "object",
           has_shipments |-> TRUE, shipments |-> l] : l \in ShipmentLists}

\* data.get("shipments", []) on the parsed body
ShipmentsOf(resp) == IF resp.has_shipments THEN resp.shipments ELSE <<>>

(***************************************************************************)
(* custom_components/hass-parcel/sensor.py: ParcelApiClient                *)
(***************************************************************************)
NoApi == [raised |-> FALSE, value |-> <<>>, called |-> FALSE]

get_shipments_IgnoresStatus(resp) ==
    IF resp.kind # "http"
    THEN [raised |-> TRUE, value |-> <<>>, called |-> TRUE]
    ELSE IF resp.body \in {"bad_json", "bad_content_type", "array"}
    THEN [raised |-> TRUE, value |-> <<>>, called |-> TRUE]
    ELSE [raised |-> FALSE, value |-> ShipmentsOf(resp), called |-> TRUE]

\* ParcelApiClient.get_shipments: the value returned, or raised = TRUE when the
\* call ends in an exception (session.get raising, the status check, resp.json()
\* raising, or .get on a body that is no object).
get_shipments(resp) ==
    IF resp.kind # "http"
    THEN [raised |-> TRUE, value |-> <<>>, called |-> TRUE]
    ELSE IF resp.status # HTTP_OK
    THEN [raised |-> TRUE, value |-> <<>>, called |-> TRUE]
    ELSE IF resp.body \in {"bad_json", "bad_content_type", "array"}
    THEN [raised |-> TRUE, value |-> <<>>, called |-> TRUE]
    ELSE [raised |-> FALSE, value |-> ShipmentsOf(resp), called |-> TRUE]

(***************************************************************************)
(* custom_components/hass-parcel/sensor.py: ParcelDataUpdateCoordinator    *)
(***************************************************************************)
\* coordinator.async_refresh(): _async_update_data turns every exception of
\* get_shipments into UpdateFailed; the coordinator then logs, keeps its data
\* and clears last_update_success; a returned list replaces the data.
CoordRefresh(cur, resp) ==
    LET r == get_shipments(resp)
    IN  IF r.raised
        THEN [data |-> cur.data, is_none |-> cur.is_none, success |-> FALSE, api |-> r]
        ELSE [data |-> r.value, is_none |-> FALSE, success |-> TRUE, api |-> r]

Coord == [data |-> data, is_none |-> data_is_none, success |-> last_update_success]

(***************************************************************************)
(* custom_components/hass-parcel/sensor.py: ParcelDeliverySensor           *)
(***************************************************************************)
IdText(shipment, default) ==
    IF HasId(shipment) THEN ToString(shipment.id) ELSE default

\* ParcelDeliverySensor.update_attributes: reads the shipment at position idx
\* of the coordinator's list ({} past its end) and recomputes the cached values.
UpdateAttributes(sensor, d) ==
    LET shipment == IF sensor.idx < Len(d) THEN d[sensor.idx + 1] ELSE <<>>
    IN  [sensor EXCEPT
            !.native_value = Get(shipment, "status", S_unknown),
            !.attrs = [status |-> Get(shipment, "status", S_Unknown),
                       shipment_id |-> IdText(shipment, "Unknown"),
                       status_color |-> StatusColor(shipment)]]

\* ParcelDeliverySensor.__init__(coordinator, idx, shipment)
NewSensor(idx, shipment, d) ==
    UpdateAttributes(
        [idx |-> idx,
         shipment |-> shipment,
         unique_id |-> <<"parcel_delivery", IdText(shipment, ToString(idx))>>,
         has_id |-> HasId(shipment),
         native_value |-> S_unknown,
         attrs |-> [status |-> S_Unknown, shipment_id |-> "Unknown",
                    status_color |-> "grey"]],
        d)

\* for idx, shipment in enumerate(coordinator.data): ParcelDeliverySensor(...)
SensorsFor(d) == [i \in 1..Len(d) |-> NewSensor(i - 1, d[i], d)]

\* ParcelDeliverySensor.available
Available(sensor) == last_update_success /\ sensor.idx < Len(data)

\* ParcelDeliverySensor.async_update, after the refresh request returned
AfterRequest(sensor, d) ==
    IF sensor.idx < Len(d)
    THEN UpdateAttributes([sensor EXCEPT !.shipment = d[sensor.idx + 1]], d)
    ELSE sensor

(***************************************************************************)
(* src/sensor.py: ParcelDataCoordinator and ParcelSensor                   *)
(***************************************************************************)
EmptyDict == [k \in {} |-> <<>>]

\* {str(shipment["id"]): shipment for shipment in shipments}
KeyedById(l) ==
    LET keys == {ToString(l[i].id) : i \in 1..Len(l)}
    IN  [k \in keys |->
            l[CHOOSE i \in 1..Len(l) :
                /\ ToString(l[i].id) = k
                /\ \A j \in (i + 1)..Len(l) : ToString(l[j].id) # k]]

LRefresh_MergesIntoOldData(d, resp) ==
    IF resp.kind # "http" \/ resp.status # HTTP_OK \/ resp.body = "bad_content_type"
    THEN [outcome |-> "failed", data |-> d]
    ELSE IF resp.body \in {"bad_json", "array"}
    THEN [outcome |-> "raised", data |-> d]
    ELSE IF \E i \in 1..Len(ShipmentsOf(resp)) : ~HasId(ShipmentsOf(resp)[i])
    THEN [outcome |-> "raised", data |-> d]
    ELSE [outcome |-> "ok",
          data |-> [k \in DOMAIN d \cup DOMAIN KeyedById(ShipmentsOf(resp)) |->
                      IF k \in DOMAIN KeyedById(ShipmentsOf(resp))
                      THEN KeyedById(ShipmentsOf(resp))[k] ELSE d[k]]]

LRefresh_ClearsOnError(d, resp) ==
    IF resp.kind # "http" \/ resp.status # HTTP_OK \/ resp.body = "bad_content_type"
    THEN [outcome |-> "failed", data |-> EmptyDict]
    ELSE IF resp.body \in {"bad_json", "array"}
    THEN [outcome |-> "raised", data |-> d]
    ELSE IF \E i \in 1..Len(ShipmentsOf(resp)) : ~HasId(ShipmentsOf(resp)[i])
    THEN [outcome |-> "raised", data |-> d]
    ELSE [outcome |-> "ok", data |-> KeyedById(ShipmentsOf(resp))]

LRefresh_BuildsInPlace(d, resp) ==
    IF resp.kind # "http" \/ resp.status # HTTP_OK \/ resp.body = "bad_content_type"
    THEN [outcome |-> "failed", data |-> d]
    ELSE IF resp.body \in {"bad_json", "array"}
    THEN [outcome |-> "raised", data |-> d]
    ELSE IF \E i \in 1..Len(ShipmentsOf(resp)) : ~HasId(ShipmentsOf(resp)[i])
    THEN [outcome |-> "raised", data |-> EmptyDict]
    ELSE [outcome |-> "ok", data |-> KeyedById(ShipmentsOf(resp))]

\* The body of ParcelDataCoordinator.async_refresh once the response is in:
\*   "failed"  aiohttp.ClientError / asyncio.TimeoutError caught, or a status
\*             other than 200: logged, data untouched;
\*   "raised"  an exception the except clause does not name leaves the call:
\*             JSONDecodeError, AttributeError (body no object), KeyError "id";
\*   "ok"      self.data replaced by the response keyed by str(id).
LRefresh(d, resp) ==
    IF resp.kind # "http" \/ resp.status # HTTP_OK \/ resp.body = "bad_content_type"
    THEN [outcome |-> "failed", data |-> d]
    ELSE IF resp.body \in {"bad_json", "array"}
    THEN [outcome |-> "raised", data |-> d]
    ELSE IF \E i \in 1..Len(ShipmentsOf(resp)) : ~HasId(ShipmentsOf(resp)[i])
    THEN [outcome |-> "raised", data |-> d]
    ELSE [outcome |-> "ok", data |-> KeyedById(ShipmentsOf(resp))]

\* ParcelSensor.parcel_data
parcel_data(pid) == Get(ldata, pid, <<>>)

\* ParcelSensor.state
LState(pid) == Get(parcel_data(pid), "status", S_unknown)

\* None, as .get(key) returns it for a missing key
PyNone == <<"None">>

\* ParcelSensor.extra_state_attributes (the members the model's shipments carry)
LAttrs(pid) ==
    IF parcel_data(pid) = <<>>
    THEN <<>>
    ELSE [status |-> Get(parcel_data(pid), "status", PyNone)]

\* ParcelSensor defines no `available`: the entity keeps Entity.available, True
LAvailable(pid) == TRUE

(***************************************************************************)
(* Initial state                                                           *)
(***************************************************************************)
NoOp == [op |-> "none", who |-> "", outcome |-> "none", resp |-> NoResponse, api |-> NoApi]

ColorIdle == status_in = <<>> /\ color_out = "none"

NoValidation == [raised |-> FALSE, value |-> FALSE]

NoFlow ==
    [step |-> "idle", errors |-> "none", key |-> "", resp |-> NoResponse,
     valid |-> NoValidation]

FlowIdle == flow = NoFlow /\ entries = {}

PlatformInit(p) ==
    /\ platform = p
    /\ phase = "new"
    /\ ldata = EmptyDict
    /\ throttled = FALSE
    /\ linflight = <<>>
    /\ lentities = {}
    /\ data = <<>>
    /\ data_is_none = TRUE
    /\ last_update_success = TRUE
    /\ sensors = <<>>
    /\ last = NoOp

Init ==
    /\ \E p \in {"legacy", "discovery", "entry"} : PlatformInit(p)
    /\ ColorIdle
    /\ FlowIdle

(***************************************************************************)
(* src/sensor.py: operations                                               *)
(***************************************************************************)
coordVars == <<data, data_is_none, last_update_success, sensors>>

\* async_setup_platform up to `await coordinator.async_refresh()`: the first
\* call always passes the Throttle and issues the request.
LSetupStart ==
    /\ platform = "legacy" /\ phase = "new"
    /\ phase' = "fetching"
    /\ linflight' = <<[op |-> "setup", who |-> ""]>>
    /\ throttled' = TRUE
    /\ UNCHANGED <<platform, ldata, lentities, last, coordVars, colorVars, flowVars>>

LCallThrottled_IssuesRequest(op, who) ==
    /\ throttled
    /\ Len(linflight) < MaxInFlight
    /\ linflight' = Append(linflight, [op |-> op, who |-> who])
    /\ last' = [NoOp EXCEPT !.op = op, !.who = who, !.outcome = "throttled"]
    /\ UNCHANGED <<platform, phase, ldata, throttled, lentities,
                   coordVars, colorVars, flowVars>>

\* A call of the Throttle'd coordinator.async_refresh() inside the interval:
\* the wrapper returns None, no request is made.
LCallThrottled(op, who) ==
    /\ throttled
    /\ last' = [NoOp EXCEPT !.op = op, !.who = who, !.outcome = "throttled"]
    /\ UNCHANGED <<platform, phase, ldata, throttled, linflight, lentities,
                   coordVars, colorVars, flowVars>>

LCallStart_IgnoresThrottle(op, who) ==
    /\ Len(linflight) < MaxInFlight
    /\ linflight' = Append(linflight, [op |-> op, who |-> who])
    /\ throttled' = TRUE
    /\ UNCHANGED <<platform, phase, ldata, lentities, last, coordVars, colorVars, flowVars>>

\* A call outside the interval: the Throttle records it and the request goes out.
LCallStart(op, who) ==
    /\ ~throttled
    /\ Len(linflight) < MaxInFlight
    /\ linflight' = Append(linflight, [op |-> op, who |-> who])
    /\ throttled' = TRUE
    /\ UNCHANGED <<platform, phase, ldata, lentities, last, coordVars, colorVars, flowVars>>

\* The "refresh" service registered by async_setup_platform
LServiceRefreshThrottled ==
    /\ platform = "legacy" /\ phase = "running"
    /\ LCallThrottled("service", "")

LServiceRefresh ==
    /\ platform = "legacy" /\ phase = "running"
    /\ LCallStart("service", "")

\* ParcelSensor.async_update (the host polls it, and calls it once on adding)
LEntityUpdateThrottled(pid) ==
    /\ platform = "legacy" /\ phase = "running" /\ pid \in lentities
    /\ LCallThrottled("entity_update", pid)

LEntityUpdate(pid) ==
    /\ platform = "legacy" /\ phase = "running" /\ pid \in lentities
    /\ LCallStart("entity_update", pid)

\* DEFAULT_SCAN_INTERVAL (30 minutes) has passed since the Throttle last let a
\* call through.  The request that call issued has ended by then: async_refresh
\* opens aiohttp.ClientSession() with no timeout argument, and the session's
\* default bounds a whole request to 5 minutes.
LInterval ==
    /\ platform = "legacy" /\ throttled
    /\ linflight = <<>>
    /\ throttled' = FALSE
    /\ UNCHANGED <<platform, phase, ldata, linflight, lentities, last, coordVars, colorVars, flowVars>>

RemoveAt(q, i) == [j \in 1..(Len(q) - 1) |-> IF j < i THEN q[j] ELSE q[j + 1]]

\* The response of the i-th pending request arrives and async_refresh runs to
\* its end.  For the setup call, async_setup_platform then registers the
\* service and adds one ParcelSensor per key of coordinator.data, unless the
\* refresh raised, which ends the setup.
LFetchDone(i, resp) ==
    /\ platform = "legacy"
    /\ i \in 1..Len(linflight)
    /\ LET r == LRefresh(ldata, resp)
           c == linflight[i]
       IN  /\ ldata' = r.data
           /\ last' = [op |-> c.op, who |-> c.who, outcome |-> r.outcome,
                       resp |-> resp, api |-> NoApi]
           /\ IF c.op = "setup"
              THEN IF r.outcome = "raised"
                   THEN phase' = "failed" /\ lentities' = {}
                   ELSE phase' = "running" /\ lentities' = DOMAIN r.data
              ELSE UNCHANGED <<phase, lentities>>
    /\ linflight' = RemoveAt(linflight, i)
    /\ UNCHANGED <<platform, throttled, coordVars, colorVars, flowVars>>

(***************************************************************************)
(* custom_components/hass-parcel/sensor.py: operations                     *)
(***************************************************************************)
legacyVars == <<ldata, throttled, linflight, lentities>>

\* The coordinator part of every refresh
CoordApply(op, r, resp) ==
    /\ data' = r.data
    /\ data_is_none' = r.is_none
    /\ last_update_success' = r.success
    /\ last' = [op |-> op, who |-> "",
                outcome |-> IF r.success THEN "ok" ELSE "failed",
                resp |-> resp, api |-> r.api]

\* async_setup_platform (discovery): refresh, then one sensor per position of
\* coordinator.data; enumerate(None) raises when the first refresh failed.
BSetupDiscovery(resp) ==
    /\ platform = "discovery" /\ phase = "new"
    /\ LET r == CoordRefresh(Coord, resp)
       IN  /\ CoordApply("setup", r, resp)
           /\ IF r.is_none
              THEN phase' = "failed" /\ sensors' = <<>>
              ELSE phase' = "running" /\ sensors' = SensorsFor(r.data)
    /\ UNCHANGED <<platform, legacyVars, colorVars, flowVars>>

\* __init__.py async_setup_entry: a coordinator of its own makes the first
\* refresh; async_config_entry_first_refresh raises ConfigEntryNotReady when it
\* fails (the host then sets the entry up again later), else the entry is
\* forwarded to the sensor platform.
BEntryFirstRefresh(resp) ==
    /\ platform = "entry" /\ phase \in {"new", "not_ready"}
    /\ phase' = IF CoordRefresh(Coord, resp).success THEN "forwarded" ELSE "not_ready"
    /\ UNCHANGED <<platform, last, coordVars, legacyVars, colorVars, flowVars>>

\* async_setup_entry (config entry): refresh, return when coordinator.data is
\* None or empty, else one sensor per position.
BSetupEntry(resp) ==
    /\ platform = "entry" /\ phase = "forwarded"
    /\ LET r == CoordRefresh(Coord, resp)
       IN  /\ CoordApply("setup", r, resp)
           /\ phase' = "running"
           /\ IF r.is_none \/ r.data = <<>>
              THEN sensors' = <<>>
              ELSE sensors' = SensorsFor(r.data)
    /\ UNCHANGED <<platform, legacyVars, colorVars, flowVars>>

\* The coordinator's update_interval timer (armed while it has listeners):
\* async_refresh, then every CoordinatorEntity writes its cached state.
BTimerRefresh(resp) ==
    /\ platform \in {"discovery", "entry"} /\ phase = "running"
    /\ Len(sensors) > 0
    /\ CoordApply("timer", CoordRefresh(Coord, resp), resp)
    /\ UNCHANGED <<platform, phase, sensors, legacyVars, colorVars, flowVars>>

\* ParcelDeliverySensor.async_update with the requested refresh carried out
BEntityUpdate(i, resp) ==
    /\ platform \in {"discovery", "entry"} /\ phase = "running"
    /\ i \in 1..Len(sensors)
    /\ LET r == CoordRefresh(Coord, resp)
       IN  /\ CoordApply("entity_update", r, resp)
           /\ sensors' = [sensors EXCEPT ![i] = AfterRequest(sensors[i], r.data)]
    /\ UNCHANGED <<platform, phase, legacyVars, colorVars, flowVars>>

\* ParcelDeliverySensor.async_update with the request absorbed by the
\* coordinator's debouncer (inside its cooldown): no fetch before it returns.
BEntityUpdateDebounced(i) ==
    /\ platform \in {"discovery", "entry"} /\ phase = "running"
    /\ i \in 1..Len(sensors)
    /\ last' = [NoOp EXCEPT !.op = "entity_update", !.outcome = "debounced"]
    /\ sensors' = [sensors EXCEPT ![i] = AfterRequest(sensors[i], data)]
    /\ UNCHANGED <<platform, phase, data, data_is_none, last_update_success,
                   legacyVars, colorVars, flowVars>>

(***************************************************************************)
(* The platform's behaviours                                               *)
(***************************************************************************)
PidTexts == {ToString(i) : i \in Ids}

Next ==
    \/ LSetupStart
    \/ LServiceRefreshThrottled
    \/ LServiceRefresh
    \/ \E pid \in PidTexts : LEntityUpdateThrottled(pid)
    \/ \E pid \in PidTexts : LEntityUpdate(pid)
    \/ LInterval
    \/ \E i \in 1..MaxInFlight, resp \in Responses : LFetchDone(i, resp)
    \/ \E resp \in Responses : BSetupDiscovery(resp)
    \/ \E resp \in Responses : BEntryFirstRefresh(resp)
    \/ \E resp \in Responses : BSetupEntry(resp)
    \/ \E resp \in Responses : BTimerRefresh(resp)
    \/ \E i \in 1..MaxShip, resp \in Responses : BEntityUpdate(i, resp)
    \/ \E i \in 1..MaxShip : BEntityUpdateDebounced(i)

Spec == Init /\ [][Next]_vars

(***************************************************************************)
(* The status-colour mapping as a function of the status string            *)
(***************************************************************************)
Fragments ==
    {<<"D","e","l","i","v","e","r","e","d">>, K_transit, <<"I","n","_">>,
     <<"p","r","e","-">>, K_exception, <<"F","A","I","L","E","D">>, K_pending,
     <<"u","n">>, <<"_">>}

RECURSIVE Concat(_)
Concat(fs) == IF fs = <<>> THEN <<>> ELSE Head(fs) \o Concat(Tail(fs))

StatusStrings == {Concat(fs) : fs \in UNION {[1..k -> Fragments] : k \in 0..MaxFrags}}

\* shipments with any of the status strings, and the shipment without "status"
ColorInputs == {[status |-> s] : s \in StatusStrings} \cup {[id |-> 1]}

InitColor ==
    /\ PlatformInit("none")
    /\ status_in \in ColorInputs
    /\ color_out = "none"
    /\ FlowIdle

ComputeColor ==
    /\ platform = "none" /\ color_out = "none"
    /\ color_out' = StatusColor(status_in)
    /\ UNCHANGED <<status_in, platformVars, flowVars>>

NextShipment ==
    /\ platform = "none" /\ color_out # "none"
    /\ status_in' \in ColorInputs
    /\ color_out' = "none"
    /\ UNCHANGED <<platformVars, flowVars>>

NextColor == ComputeColor \/ NextShipment

SpecColor == InitColor /\ [][NextColor]_vars

(***************************************************************************)
(* custom_components/hass-parcel/config_flow.py: ParcelConfigFlow          *)
(***************************************************************************)
ApiKeys == {"key-a", "key-b"}

validate_api_key_Propagates(resp) ==
    [raised |-> get_shipments(resp).raised, value |-> ~get_shipments(resp).raised]

\* ParcelApiClient.validate_api_key: True when get_shipments returns, False
\* when it raises any Exception; the call itself never raises.
validate_api_key(resp) ==
    [raised |-> FALSE, value |-> ~get_shipments(resp).raised]

StepUserResult_AlwaysCreates(v) == [type |-> "create_entry", errors |-> "none"]

\* async_step_user with user_input, from the result v of validate_api_key on:
\* create the entry when valid, else show the form again with errors["base"].
StepUserResult(v) ==
    IF v.raised THEN [type |-> "form", errors |-> "cannot_connect"]
    ELSE IF v.value THEN [type |-> "create_entry", errors |-> "none"]
    ELSE [type |-> "form", errors |-> "invalid_auth"]

\* async_step_user(None): the empty form is shown (a new flow is started)
FlowOpen ==
    /\ platform = "flow" /\ flow.step \in {"idle", "done"}
    /\ flow' = [NoFlow EXCEPT !.step = "form"]
    /\ UNCHANGED <<entries, platformVars, colorVars>>

\* async_step_user(user_input) up to `await client.validate_api_key()`
FlowSubmit(key) ==
    /\ platform = "flow" /\ flow.step = "form"
    /\ flow' = [NoFlow EXCEPT !.step = "validating", !.key = key]
    /\ UNCHANGED <<entries, platformVars, colorVars>>

\* The validation request's response arrives: async_step_user runs to its end
FlowValidated(resp) ==
    /\ platform = "flow" /\ flow.step = "validating"
    /\ LET v == validate_api_key(resp)
           r == StepUserResult(v)
       IN  /\ flow' = [step |-> IF r.type = "create_entry" THEN "done" ELSE "form",
                       errors |-> r.errors, key |-> flow.key, resp |-> resp,
                       valid |-> v]
           /\ entries' = IF r.type = "create_entry"
                         THEN entries \cup {flow.key} ELSE entries
    /\ UNCHANGED <<platformVars, colorVars>>

InitFlow ==
    /\ PlatformInit("flow")
    /\ ColorIdle
    /\ FlowIdle

NextFlow ==
    \/ FlowOpen
    \/ \E key \in ApiKeys : FlowSubmit(key)
    \/ \E resp \in Responses : FlowValidated(resp)

SpecFlow == InitFlow /\ [][NextFlow]_vars

(***************************************************************************)
(* Properties                                                              *)
(***************************************************************************)
Legacy == platform = "legacy"
Entry == platform \in {"discovery", "entry"}

\* the operation completed last was a refresh that got a response
Refreshed == last.outcome \in {"ok", "failed", "raised"}

\* non-200 status, network error or timeout
FetchFailure(resp) ==
    \/ resp.kind \in {"client_error", "timeout"}
    \/ resp.kind = "http" /\ resp.status # HTTP_OK

\* a 200 response whose body is not the expected JSON shape
Malformed(resp) ==
    /\ resp.kind = "http" /\ resp.status = HTTP_OK
    /\ \/ resp.body \in {"bad_json", "bad_content_type", "array"}
       \/ \E i \in 1..Len(resp.shipments) : ~HasId(resp.shipments[i])

\* the ids (as text) of the shipments in the coordinator's list
DataIds == {ToString(data[i].id) : i \in {j \in 1..Len(data) : HasId(data[j])}}

\* every shipment of the coordinator's list carries its id
AllIdentified == \A j \in 1..Len(data) : HasId(data[j])

\* the id (as text) a ParcelDeliverySensor was created for
SensorId(sensor) == sensor.unique_id[2]

\* C1: a refresh whose fetch fails (non-200 status, network error, timeout)
\* leaves the coordinator's dataset exactly as it was before the refresh.
C1_FailedFetchKeepsDataset ==
    [][(last'.outcome \in {"ok", "failed", "raised"} /\ FetchFailure(last'.resp))
         => (ldata' = ldata /\ data' = data /\ data_is_none' = data_is_none)]_vars

C1_Witness ==
    /\ last.op # "setup" /\ last.outcome = "failed" /\ FetchFailure(last.resp)
    /\ \/ Legacy /\ ldata # EmptyDict
       \/ Entry /\ data # <<>>

\* C2: after a successful fetch the dataset is exactly the returned list keyed
\* by shipment id: every returned shipment is present under its id and nothing
\* else is (entries of the previous dataset not in the list are gone).
C2_SuccessReplacesDataset ==
    last.outcome = "ok" =>
        LET l == IF last.resp.has_shipments THEN last.resp.shipments ELSE <<>>
        IN  IF Legacy
            THEN /\ DOMAIN ldata = {ToString(l[i].id) : i \in 1..Len(l)}
                 /\ \A i \in 1..Len(l) : ldata[ToString(l[i].id)] = l[i]
            ELSE /\ ~data_is_none
                 /\ Len(data) = Len(l)
                 /\ \A i \in 1..Len(l) : data[i] = l[i]

C2_Witness ==
    /\ last.outcome = "ok" /\ last.op # "setup"
    /\ \/ Legacy /\ ldata # EmptyDict /\ \E pid \in lentities : pid \notin DOMAIN ldata
       \/ Entry /\ data # <<>>
                /\ \E i \in 1..Len(sensors) :
                     sensors[i].has_id /\ SensorId(sensors[i]) \notin DataIds

\* C3: no exception leaves a refresh call, whatever the fetch failure: non-200
\* status, malformed body (not the expected JSON shape, a shipment without id),
\* network error or timeout.
C3_NoExceptionLeavesRefresh ==
    (Refreshed /\ (FetchFailure(last.resp) \/ Malformed(last.resp)))
        => last.outcome # "raised"

\* C4: an entity is available exactly when the coordinator's last refresh
\* succeeded and the entity's shipment id is still in the dataset.
C4_AvailableIffSuccessAndPresent ==
    /\ (Entry /\ AllIdentified) =>
         \A i \in 1..Len(sensors) :
             sensors[i].has_id =>
                 (Available(sensors[i]) <=>
                     (last_update_success /\ SensorId(sensors[i]) \in DataIds))
    /\ (Legacy /\ Refreshed) =>
         \A pid \in lentities :
             LAvailable(pid) <=> (last.outcome = "ok" /\ pid \in DOMAIN ldata)

\* C5: an entity is matched to its shipment by id: whenever its shipment id is
\* in the dataset, what the entity reports is the shipment with that id.
C5_EntityReportsItsOwnShipment ==
    /\ Entry =>
         \A i \in 1..Len(sensors) :
             (sensors[i].has_id /\ SensorId(sensors[i]) \in DataIds) =>
                 /\ sensors[i].attrs.shipment_id = SensorId(sensors[i])
                 /\ HasId(sensors[i].shipment)
                 /\ ToString(sensors[i].shipment.id) = SensorId(sensors[i])
    /\ Legacy =>
         \A pid \in lentities :
             pid \in DOMAIN ldata => ToString(parcel_data(pid).id) = pid

\* C6: once a successful fetch no longer returns a shipment id, no entity
\* represents that id: the entity created for it is not an available entity
\* (an unavailable entity shows neither state nor attributes).
C6_NoEntityForVanishedShipment ==
    last.outcome = "ok" =>
        /\ (Entry /\ AllIdentified) =>
             \A i \in 1..Len(sensors) :
                 (sensors[i].has_id /\ SensorId(sensors[i]) \notin DataIds) =>
                     ~Available(sensors[i])
        /\ Legacy =>
             \A pid \in lentities : pid \notin DOMAIN ldata => ~LAvailable(pid)

\* C7: after every successful refresh, the state, the attributes and the status
\* colour of an entity are the ones derived from its shipment in the current
\* dataset (here: every sensor whose position still holds its own shipment id).
C7_EntitiesInSyncAfterRefresh ==
    last.outcome = "ok" =>
        /\ Entry =>
             \A i \in 1..Len(sensors) :
                 LET pos == sensors[i].idx + 1
                 IN  (/\ sensors[i].has_id
                      /\ pos <= Len(data)
                      /\ HasId(data[pos])
                      /\ ToString(data[pos].id) = SensorId(sensors[i])) =>
                         /\ sensors[i].native_value = Get(data[pos], "status", S_unknown)
                         /\ sensors[i].attrs.status = Get(data[pos], "status", S_Unknown)
                         /\ sensors[i].attrs.status_color = StatusColor(data[pos])
        /\ Legacy =>
             \A pid \in lentities :
                 pid \in DOMAIN ldata =>
                     LState(pid) = Get(ldata[pid], "status", S_unknown)

\* the status string the colour is computed from, lower-cased
LoweredStatus == Lower(Get(status_in, "status", S_empty))

HasKeyword(kw) == Contains(kw, LoweredStatus)

\* C8: the status colour is total and deterministic: every status string
\* (empty or missing included) gets exactly one of the five colours, by
\* case-insensitive substring match with priority delivered > transit >
\* exception/failed > pending/pre-transit > grey.
C8_StatusColorTotalAndPrioritised ==
    color_out # "none" =>
        /\ color_out \in Colors
        /\ HasKeyword(K_delivered) => color_out = "green"
        /\ (~HasKeyword(K_delivered) /\ HasKeyword(K_transit)) => color_out = "blue"
        /\ (/\ ~HasKeyword(K_delivered) /\ ~HasKeyword(K_transit)
            /\ (HasKeyword(K_exception) \/ HasKeyword(K_failed))) => color_out = "red"
        /\ (/\ ~HasKeyword(K_delivered) /\ ~HasKeyword(K_transit)
            /\ ~HasKeyword(K_exception) /\ ~HasKeyword(K_failed)
            /\ (HasKeyword(K_pending) \/ HasKeyword(K_pre_transit))) => color_out = "orange"
        /\ (/\ ~HasKeyword(K_delivered) /\ ~HasKeyword(K_transit)
            /\ ~HasKeyword(K_exception) /\ ~HasKeyword(K_failed)
            /\ ~HasKeyword(K_pending) /\ ~HasKeyword(K_pre_transit)) => color_out = "grey"

\* a mixed-case status holding two keywords takes the colour of the higher one
C8_Witness ==
    /\ color_out = "green"
    /\ HasKeyword(K_delivered) /\ HasKeyword(K_transit)
    /\ ~Contains(K_delivered, Get(status_in, "status", S_empty))

\* C9 as stated: a sensor that read a shipment with status "In_Transit" has
\* state "in_transit" and status_color blue.
C9_InTransitStateLowercased ==
    /\ Entry =>
         \A i \in 1..Len(sensors) :
             Get(sensors[i].shipment, "status", S_empty) = S_In_Transit =>
                 /\ sensors[i].native_value = S_in_transit
                 /\ sensors[i].attrs.status_color = "blue"
    /\ Legacy =>
         \A pid \in lentities :
             Get(parcel_data(pid), "status", S_empty) = S_In_Transit =>
                 LState(pid) = S_in_transit

\* C9 amended: a sensor that read a shipment with status "In_Transit" has that
\* status string, unchanged, as its state ("In_Transit"), and status_color blue.
C9_InTransitStateAsReturned ==
    /\ Entry =>
         \A i \in 1..Len(sensors) :
             Get(sensors[i].shipment, "status", S_empty) = S_In_Transit =>
                 /\ sensors[i].native_value = S_In_Transit
                 /\ sensors[i].attrs.status_color = "blue"
    /\ Legacy =>
         \A pid \in lentities :
             Get(parcel_data(pid), "status", S_empty) = S_In_Transit =>
                 LState(pid) = S_In_Transit

C9_Witness ==
    /\ Entry /\ last.outcome = "ok"
    /\ \E i \in 1..Len(sensors) :
         /\ sensors[i].shipment = [id |-> 1, status |-> S_In_Transit]
         /\ sensors[i].native_value = S_In_Transit
         /\ sensors[i].attrs.status_color = "blue"

\* C10: get_shipments returns the body's "shipments" member (the empty list when
\* the member is absent) only on a 200 response; on another status or a
\* network failure it raises and returns nothing.
C10_FetchReturnsOnlyOn200 ==
    last.api.called =>
        /\ (last.resp.kind # "http" \/ last.resp.status # HTTP_OK) =>
               (last.api.raised /\ last.api.value = <<>>)
        /\ ~last.api.raised =>
               /\ last.resp.kind = "http" /\ last.resp.status = HTTP_OK
               /\ last.api.value =
                    (IF last.resp.has_shipments THEN last.resp.shipments ELSE <<>>)

C10_Witness ==
    /\ last.api.called /\ last.api.raised
    /\ last.resp.kind = "http" /\ last.resp.status # HTTP_OK
    /\ data # <<>>

\* the fetch behind a response succeeded: status 200 and a JSON object body
FetchSucceeded(resp) ==
    resp.kind = "http" /\ resp.status = HTTP_OK /\ resp.body = "object"

\* C11: a config entry is created only when the validation fetch with the
\* submitted key succeeded; when it failed the form comes back with an error
\* and no entry is added.
C11_EntryOnlyAfterValidation ==
    [][flow.step = "validating" =>
         IF FetchSucceeded(flow'.resp)
         THEN /\ flow'.step = "done"
              /\ entries' = entries \cup {flow.key}
         ELSE /\ flow'.step = "form" /\ flow'.errors # "none"
              /\ entries' = entries]_vars

C11_Witness ==
    /\ flow.step = "form" /\ flow.errors = "invalid_auth"
    /\ flow.key = "key-b" /\ entries = {"key-a"}

\* C20: validate_api_key never raises: every failed validation fetch comes back
\* as False, the form then shows "invalid_auth", never "cannot_connect".
C20_ValidationNeverRaises ==
    /\ ~flow.valid.raised
    /\ flow.errors # "cannot_connect"
    /\ (flow.step = "form" /\ flow.resp # NoResponse /\ ~FetchSucceeded(flow.resp))
           => (flow.valid.value = FALSE /\ flow.errors = "invalid_auth")

C20_Witness ==
    /\ flow.step = "form" /\ flow.errors = "invalid_auth"
    /\ flow.resp.kind = "client_error"

C13_OneEntityPerShipment ==
    (last.outcome = "ok" /\ phase = "running") =>
        /\ Legacy => DOMAIN ldata \subseteq lentities
        /\ (Entry /\ AllIdentified) =>
               \A id \in DataIds :
                   Cardinality({i \in 1..Len(sensors) : SensorId(sensors[i]) = id}) = 1

\* a step of the scheduled polling: the host polling a ParcelSensor, or the
\* coordinator's update_interval timer; no service call, no other manual action
ScheduledPoll ==
    \/ \E pid \in PidTexts : LEntityUpdate(pid) \/ LEntityUpdateThrottled(pid)
    \/ \E resp \in Responses : BTimerRefresh(resp)

\* C14: after a failed refresh, the failed startup refresh included, polling
\* goes on: a scheduled poll can still be taken, so a fetch is attempted again
\* without manual action.
C14_FailureIsRetried ==
    last.outcome \in {"failed", "raised"} => ENABLED ScheduledPoll

\* C19: a failed first fetch is not fatal to the custom component's setup:
\* setting up the config entry never raises, and a platform setup whose first
\* refresh failed has finished normally, with an empty dataset and no entity.
C19_FailedStartupNotFatal ==
    Entry =>
        /\ phase # "not_ready"
        /\ (last.op = "setup" /\ last.outcome = "failed") =>
               (phase = "running" /\ data = <<>> /\ sensors = <<>>)

\* C15: a failed refresh makes an entity that holds data unavailable, and the
\* next successful refresh whose dataset still contains the entity's shipment
\* makes it available again.
C15_AvailabilityFollowsRefresh ==
    /\ Entry =>
           \A i \in 1..Len(sensors) :
               /\ last.outcome = "failed" => ~Available(sensors[i])
               /\ (/\ last.outcome = "ok" /\ AllIdentified
                   /\ sensors[i].has_id /\ SensorId(sensors[i]) \in DataIds)
                      => Available(sensors[i])
    /\ Legacy =>
           \A pid \in lentities \cap DOMAIN ldata :
               /\ last.outcome = "failed" => ~LAvailable(pid)
               /\ last.outcome = "ok" => LAvailable(pid)

\* C16: a manual refresh is not held back by the throttle: a call of the
\* refresh service made shortly after another refresh still fetches.
C16_ManualRefreshNotThrottled ==
    (Legacy /\ last.op = "service") => last.outcome # "throttled"

\* C17: the throttle lets at most one fetch out per interval: a request is
\* issued only by a call that finds the interval elapsed, and that call starts
\* the next interval; only the passing of the interval ends it; a call inside
\* the interval issues no request and leaves the dataset as it is.
C17_ThrottleOneFetchPerInterval ==
    [][Legacy =>
         /\ Len(linflight') > Len(linflight) => (~throttled /\ throttled')
         /\ (throttled /\ ~throttled') => (linflight' = linflight /\ last' = last)
         /\ (last' # last /\ last'.outcome = "throttled") =>
                (throttled /\ throttled' /\ linflight' = linflight /\ ldata' = ldata)]_vars

C17_Witness ==
    /\ Legacy /\ last.op = "entity_update" /\ last.outcome = "throttled"
    /\ ldata # EmptyDict /\ linflight = <<>>

\* the shipment a list holds under an id (as text), <<>> when it holds none
InList(l, pid) ==
    IF \E i \in 1..Len(l) : HasId(l[i]) /\ ToString(l[i].id) = pid
    THEN l[CHOOSE i \in 1..Len(l) : HasId(l[i]) /\ ToString(l[i].id) = pid]
    ELSE <<>>

\* C18: the legacy dataset is never torn: over any step, what the entities
\* read is either all as before, or all of it the result of the one
\* successful fetch that step completed.
C18_DatasetNeverTorn ==
    [][Legacy =>
         \/ \A pid \in PidTexts : parcel_data(pid)' = parcel_data(pid)
         \/ /\ last'.outcome = "ok"
            /\ \A pid \in PidTexts :
                   parcel_data(pid)' = InList(ShipmentsOf(last'.resp), pid)]_vars

\* entities read a dataset of two shipments a later refresh put in place
C18_Witness ==
    /\ Legacy /\ last.outcome = "ok" /\ last.op = "entity_update"
    /\ Cardinality(DOMAIN ldata) = 2
    /\ \E pid \in lentities : parcel_data(pid) # <<>>

====
